---- MODULE Spec2Model ----
(***************************************************************************)
(* Extraction orchestration core of phoneextractor (src/app.py):          *)
(* the /extract and /stop-extraction handlers, the background worker      *)
(* start_extraction_worker, the shared ThreadPoolExecutor running         *)
(* run_scraper_with_retry, the Redis cache-aside helpers and the          *)
(* ExtractionSession / ExtractedData rows they write.                     *)
(*                                                                         *)
(* Assumptions of the model: requests are authenticated (the decorator    *)
(* and the session check of app.py:780-784 pass), and database commits    *)
(* succeed.  Request handlers run on a multi-threaded WSGI server         *)
(* (waitress, src/run_production.py), so the /extract handler is split at *)
(* the point where it has committed the new row and not yet set the guard.*)
(*                                                                         *)
(* Specifications:                                                         *)
(*   Spec        the orchestration: handlers, worker, executor, cache      *)
(*               (Redis reachable, runs within one TTL of the entries)     *)
(*   FairSpec    Spec with the threads' steps scheduled fairly             *)
(*   ApiSpec     Spec with the request last handled and its verdict kept   *)
(*   RunnerSpec  one run_scraper_with_retry invocation on its own, with    *)
(*               its collector calls and sleeps counted                    *)
(*   IntakeSpec  the /extract and /stop-extraction handlers alone, over    *)
(*               a wider set of request bodies                             *)
(*   PoolSpec    one session of more platforms than pool threads, from the *)
(*               worker's submit loop to the return of its invocations     *)
(*   DecoratorSpec  one call of a collector wrapped by @retry or by        *)
(*               @scraper_error_handler                                    *)
(*   CacheSpec   cache_results and get_cached_results called for queries   *)
(*               with and without ':' in their texts                       *)
(*   CandidateSpec  extract_phone_candidates applied to texts made of      *)
(*               country codes, numbers, extensions and blanks             *)
(*   PhoneSpec   format_phone and validate_phone_number applied to phone   *)
(*               texts typed character by character                        *)
(***************************************************************************)
EXTENDS Integers, Sequences, FiniteSets, TLC

\* ------------------------------------------------------------------ bounds
\* number of ExtractionSession rows the model lets /extract create
MaxSessions == 2
\* number of futures the model lets the sessions hand to thread_pool in all
MaxFutures == 2
\* length of the phone texts handed to the phone-number functions
MaxPhoneLen == 11
\* number of platforms of the session PoolSpec follows through the executor
MaxPoolPlatforms == 6
\* number of pieces the texts handed to extract_phone_candidates are made of
MaxChunks == 3

\* ------------------------------------------------------- program constants
\* ThreadPoolExecutor(max_workers=5)
max_workers == 5
\* run_scraper_with_retry(..., max_retries=3)
max_retries == 3
\* start_extraction: len(platforms) > 10 is rejected
MaxPlatforms == 10
\* @retry(max_retries=2, ...), @scraper_error_handler(max_retries=2)
retry_max_retries == 2
\* @retry(..., delay_seconds=2); scraper_error_handler(..., delay=2)
delay_seconds == 2

\* keys of scraper_functions
scraper_functions ==
    {"truepeoplesearch", "spokeo", "fastpeoplesearch", "zabasearch",
     "yellowpages", "whitepages", "manta", "yelp"}

\* ------------------------------------------------------------ phone text
\* Strings whose characters matter are sequences of one-character strings.
DigitChars == {"0", "1", "2", "3", "4", "5", "6", "7", "8", "9"}

\* re.sub(r'\D', '', c)
StripNonDigits(s) == SelectSeq(s, LAMBDA c : c \in DigitChars)

\* format_phone with the country code taken off every text that starts with 1
format_phone_leading_1_dropped(digits) ==
    IF Len(digits) \in {10, 11} /\ digits[1] = "1"
    THEN LET d == SubSeq(digits, 2, Len(digits))
         IN <<"+", "1", " ", "(">> \o SubSeq(d, 1, 3) \o <<")", " ">>
            \o SubSeq(d, 4, 6) \o <<"-">> \o SubSeq(d, 7, Len(d))
    ELSE IF Len(digits) = 10
    THEN <<"(">> \o SubSeq(digits, 1, 3) \o <<")", " ">>
         \o SubSeq(digits, 4, 6) \o <<"-">> \o SubSeq(digits, 7, 10)
    ELSE digits

\* format_phone(digits)
format_phone(digits) ==
    IF Len(digits) = 11 /\ digits[1] = "1"
    THEN LET d == SubSeq(digits, 2, 11)
         IN <<"+", "1", " ", "(">> \o SubSeq(d, 1, 3) \o <<")", " ">>
            \o SubSeq(d, 4, 6) \o <<"-">> \o SubSeq(d, 7, 10)
    ELSE IF Len(digits) = 10
    THEN <<"(">> \o SubSeq(digits, 1, 3) \o <<")", " ">>
         \o SubSeq(digits, 4, 6) \o <<"-">> \o SubSeq(digits, 7, 10)
    ELSE digits

\* Python's None, set apart from every string of characters
None == <<"None">>

\* the separators validate_phone_number removes: [\s\-\(\)\.\+]
SeparatorChars == {" ", "-", "(", ")", ".", "+"}

\* validate_phone_number(phone_str) of src/scrapers.py
validate_phone_number(phone_str) ==
    IF phone_str = <<>> \/ phone_str = <<"N", "/", "A">>
    THEN None
    ELSE LET cleaned == SelectSeq(phone_str,
                                  LAMBDA c : c \notin SeparatorChars)
         IN IF /\ \A i \in 1..Len(cleaned) : cleaned[i] \in DigitChars
               /\ \/ Len(cleaned) = 10
                  \/ Len(cleaned) = 11 /\ cleaned[1] = "1"
            THEN IF Len(cleaned) = 10
                 THEN <<"(">> \o SubSeq(cleaned, 1, 3) \o <<")", " ">>
                      \o SubSeq(cleaned, 4, 6) \o <<"-">>
                      \o SubSeq(cleaned, 7, 10)
                 ELSE <<"+", "1", " ", "(">> \o SubSeq(cleaned, 2, 4)
                      \o <<")", " ">> \o SubSeq(cleaned, 5, 7) \o <<"-">>
                      \o SubSeq(cleaned, 8, 11)
            ELSE None

\* the digit strings format_phone formats: 10 digits, or 11 with a leading 1
Formattable(digits) ==
    \/ Len(digits) = 10
    \/ Len(digits) = 11 /\ digits[1] = "1"

\* ---- PHONE_REGEX (enhanced_scrapers.py:81, simple_scrapers.py:55)
\*   (?:\+?1[\s\-.]?)?\(?\d{3}\)?[\s\-.]?\d{3}[\s\-.]?\d{4}(?: *x\d{1,5})?
\* Positions are indices into the text; a match is told by the position
\* after its last character, 0 meaning no match.

\* [\s\-.] over the characters of the model's texts
RegexSepChars == {" ", "-", "."}

\* the character at position i, "" past the end of the text
CharAt(text, i) == IF i \in 1..Len(text) THEN text[i] ELSE ""

\* \d{n} at position i
DigitsAt(text, i, n) ==
    /\ i >= 1
    /\ i + n - 1 <= Len(text)
    /\ \A j \in i..(i + n - 1) : text[j] \in DigitChars

\* an optional single character of the set cs at position i: where the
\* match goes on (what follows each optional item of PHONE_REGEX cannot match
\* the item's own characters, so taking it when present is what the regex
\* engine ends up doing)
SkipOptional(text, i, cs) == IF CharAt(text, i) \in cs THEN i + 1 ELSE i

\* \(?\d{3}\)?[\s\-.]?\d{3}[\s\-.]?\d{4} at position i
RegexNumberEnd(text, i) ==
    LET p1 == SkipOptional(text, i, {"("})
        p2 == SkipOptional(text, p1 + 3, {")"})
        p3 == SkipOptional(text, p2, RegexSepChars)
        p4 == SkipOptional(text, p3 + 3, RegexSepChars)
    IN IF /\ DigitsAt(text, p1, 3)
          /\ DigitsAt(text, p3, 3)
          /\ DigitsAt(text, p4, 4)
       THEN p4 + 4 ELSE 0

\* \+?1[\s\-.]? at position i
RegexPrefixEnd(text, i) ==
    LET g1 == SkipOptional(text, i, {"+"})
    IN IF CharAt(text, g1) = "1"
       THEN SkipOptional(text, g1 + 1, RegexSepChars) ELSE 0

RECURSIVE RegexSkipSpaces(_, _)
\* " *" at position i
RegexSkipSpaces(text, i) ==
    IF CharAt(text, i) = " " THEN RegexSkipSpaces(text, i + 1) ELSE i

\* (?: *x\d{1,5})? at position i
RegexExtensionEnd(text, i) ==
    LET q == RegexSkipSpaces(text, i)
        run == {k \in 1..5 : DigitsAt(text, q + 1, k)}
    IN IF CharAt(text, q) = "x" /\ run # {}
       THEN q + 1 + (CHOOSE k \in run : \A j \in run : j <= k)
       ELSE i

\* PHONE_REGEX tried at position i: the prefix group is taken when the number
\* matches after it, and given up when it does not.  numend is the position
\* after the number, end the position after the whole match.
RegexMatchAt(text, i) ==
    LET g == RegexPrefixEnd(text, i)
        withPrefix == IF g = 0 THEN 0 ELSE RegexNumberEnd(text, g)
        numend == IF withPrefix # 0 THEN withPrefix
                  ELSE RegexNumberEnd(text, i)
    IN [numend |-> numend,
        end |-> IF numend = 0 THEN 0 ELSE RegexExtensionEnd(text, numend)]

RECURSIVE PHONE_REGEX_findall(_, _)
\* PHONE_REGEX.findall(text) from position i on: the matches left to right,
\* not overlapping; each with the part of it that is the number
PHONE_REGEX_findall(text, i) ==
    IF i > Len(text) THEN <<>>
    ELSE LET m == RegexMatchAt(text, i)
         IN IF m.end = 0 THEN PHONE_REGEX_findall(text, i + 1)
            ELSE <<[match |-> SubSeq(text, i, m.end - 1),
                    number |-> SubSeq(text, i, m.numend - 1)]>>
                 \o PHONE_REGEX_findall(text, m.end)

RECURSIVE FromKeys(_)
\* list(dict.fromkeys(cleaned)): first occurrences, in order
FromKeys(cleaned) ==
    IF cleaned = <<>> THEN <<>>
    ELSE LET n == Len(cleaned)
             front == FromKeys(SubSeq(cleaned, 1, n - 1))
         IN IF \E j \in 1..(n - 1) : cleaned[j] = cleaned[n]
            THEN front ELSE Append(front, cleaned[n])

RECURSIVE CleanedCandidates(_)
\* the loop of extract_phone_candidates over the matches
CleanedCandidates(candidates) ==
    IF candidates = <<>> THEN <<>>
    ELSE LET n == Len(candidates)
             front == CleanedCandidates(SubSeq(candidates, 1, n - 1))
             all == StripNonDigits(candidates[n].match)
             digits == IF Len(all) > 11
                       THEN SubSeq(all, Len(all) - 9, Len(all)) ELSE all
         IN IF Len(all) >= 10 THEN Append(front, format_phone(digits))
            ELSE front

\* extract_phone_candidates(text)
extract_phone_candidates(text) ==
    FromKeys(CleanedCandidates(PHONE_REGEX_findall(text, 1)))

\* the canonical phone number of a raw phone text: digits re-formatted
CanonicalPhone(text) == format_phone(StripNonDigits(text))

\* _standard_result(number, name, address, source), name/address left out
_standard_result(number, source) ==
    [number |-> IF number = <<>> THEN <<"N", "/", "A">> ELSE number,
     source |-> source]

\* two spellings of one number, as a card's phone element may carry them
PhoneFormatted ==
    <<"(", "2", "1", "2", ")", " ", "5", "5", "5", "-", "0", "1", "0", "0">>
PhoneRaw == <<"2", "1", "2", "5", "5", "5", "0", "1", "0", "0">>
\* a phone element's text that holds no full number
PhoneShort == <<"5", "5", "5", "-", "0", "1", "0", "0">>

\* ------------------------------------------------------------- collectors
\* What one call of scraper_functions[platform](keywords, location) can do:
\* raise, return something that is not a list, or return a list of records.
CollectorLists(platform) ==
    IF platform = "yelp"
    THEN {<<>>, <<_standard_result(PhoneFormatted, "yelp")>>}
    ELSE {<<_standard_result(PhoneRaw, platform)>>,
          <<_standard_result(PhoneShort, platform)>>}

CollectorOutcomes(platform) ==
    {[kind |-> "raise", value |-> <<>>], [kind |-> "nonlist", value |-> <<>>]}
    \cup {[kind |-> "list", value |-> l] : l \in CollectorLists(platform)}

\* ---------------------------------------------------------------- requests
\* str.strip() on the request's text fields
strip(s) == IF s = " " THEN "" ELSE s

\* bodies of POST /extract the model submits
ExtractRequests ==
    { [keywords |-> " ", location |-> "", platforms |-> <<"yelp">>],
      [keywords |-> "pizza", location |-> "NY", platforms |-> <<>>],
      [keywords |-> "pizza", location |-> "NY", platforms |-> <<"bogus">>],
      [keywords |-> "pizza", location |-> "NY",
       platforms |-> <<"yelp", "yelp", "yelp", "yelp", "yelp", "yelp",
                       "yelp", "yelp", "yelp", "yelp", "yelp">>],
      [keywords |-> "pizza", location |-> "NY",
       platforms |-> <<"yelp", "bogus">>],
      [keywords |-> "pizza", location |-> "NY",
       platforms |-> <<"yelp", "manta">>] }

\* stands where a handled operation carries no /extract body
NoRequest == [keywords |-> "", location |-> "", platforms |-> <<>>]

\* parse_extract_request as it would be without the "p in scraper_functions"
\* filter
parse_extract_request_unfiltered(req) ==
    [keywords |-> strip(req.keywords),
     location |-> strip(req.location),
     platforms |-> SelectSeq(req.platforms, LAMBDA p : p # "")]

\* parse_extract_request(req): strip the text, keep the known platform ids
parse_extract_request(req) ==
    [keywords |-> strip(req.keywords),
     location |-> strip(req.location),
     platforms |-> SelectSeq(req.platforms,
                             LAMBDA p : p # "" /\ p \in scraper_functions)]

\* ------------------------------------------------------------------- state
VARIABLES
    EXTRACTING,             \* global run guard
    EXTRACTION_STOP_EVENT,  \* threading.Event: is_set()
    EXTRACTION_DATA,        \* in-memory accumulated records
    ExtractionSession,      \* table: sequence of session rows, id = index
    thread,                 \* per session: position of its request/worker
    futures,                \* per session: futures of run_scrapers_concurrently
    all_results,            \* per session: the worker's local all_results
    thread_pool,            \* work queue of the executor (FIFO of <<s, i>>)
    redis,                  \* cache backend: [up, store]
    handled,                \* ApiSpec: the request last handled, its verdict
    run,                    \* RunnerSpec, DecoratorSpec: the invocation
                            \* under observation
    phone                   \* PhoneSpec: a phone text and what is made of it

core == <<EXTRACTING, EXTRACTION_STOP_EVENT, EXTRACTION_DATA,
          ExtractionSession, thread, futures, all_results, thread_pool,
          redis>>

vars == <<EXTRACTING, EXTRACTION_STOP_EVENT, EXTRACTION_DATA,
          ExtractionSession, thread, futures, all_results, thread_pool,
          redis, handled, run, phone>>

Sessions == 1..Len(ExtractionSession)

Terminal == {"completed", "failed", "stopped"}

RECURSIVE PlatformCount(_)
\* platforms of the sessions 1..n, summed
PlatformCount(n) ==
    IF n = 0 THEN 0
    ELSE Len(ExtractionSession[n].platforms) + PlatformCount(n - 1)

Handled(op, req, result) == [op |-> op, req |-> req, result |-> result]

\* no invocation under observation
NoRun ==
    [platform |-> "", keywords |-> "", location |-> "", state |-> "NONE",
     attempt |-> 0, result |-> <<>>, exception |-> FALSE,
     calls |-> 0, sleeps |-> 0, succeeded |-> FALSE]

\* no phone text typed, nothing made of it
NoPhone == [text |-> <<>>, state |-> "TEXT", formatted |-> <<>>,
            validated |-> <<>>, candidates |-> <<>>]

InitCore ==
    /\ EXTRACTING = FALSE
    /\ EXTRACTION_STOP_EVENT = FALSE
    /\ EXTRACTION_DATA = <<>>
    /\ ExtractionSession = <<>>
    /\ thread = <<>>
    /\ futures = <<>>
    /\ all_results = <<>>
    /\ thread_pool = <<>>
    /\ handled = Handled("none", NoRequest, "none")
    /\ phone = NoPhone

Init ==
    /\ InitCore
    /\ redis = [up |-> TRUE, store |-> <<>>]
    /\ run = NoRun

\* ------------------------------------------------------------------ helpers
\* datetime.now(timezone.utc) when it is stored into a row whose finished_at
\* is stored: an instant later than the stored one (0 is None)
now(stored) == stored + 1

\* a new ExtractionSession row (status defaults to 'running', results to 0)
NewSession(keywords, location, platforms) ==
    [status |-> "running", finished_at |-> 0, total_results |-> 0,
     keywords |-> keywords, location |-> location, platforms |-> platforms,
     extracted_data |-> <<>>]

\* a Future just submitted to the executor
NewFuture ==
    [state |-> "PENDING", attempt |-> 0, result |-> <<>>, exception |-> FALSE]

\* a Future that as_completed has handed over and nothing refers to any more
YieldedFuture == [NewFuture EXCEPT !.state = "YIELDED"]

\* futures currently executing on a pool thread
Running ==
    UNION {{<<s, i>> : i \in {j \in DOMAIN futures[s] :
                                 futures[s][j].state = "RUNNING"}} :
           s \in Sessions}

\* --------------------------------------------------------------- ResultCache
\* Python's hash() of a str, taken as collision-free: the digest stands for
\* the string it was made of and for no other
hash(key_data) == <<"hash", key_data>>

\* get_cache_key(platform, keywords, location): the three texts are joined by
\* ':' into one string, whose hash is the key
get_cache_key(platform, keywords, location) ==
    LET key_data == platform \o ":" \o keywords \o ":" \o location
    IN <<"scrape_cache:", hash(key_data)>>

\* json.dumps(results): the text Redis stores for a list of records
json_dumps(results) == [json |-> results]

\* json.loads(cached): the list a stored text was made of
json_loads(cached) == cached.json

\* get_cached_results(platform, keywords, location): None is <<>>
get_cached_results(platform, keywords, location) ==
    IF ~redis.up THEN <<>>
    ELSE LET cache_key == get_cache_key(platform, keywords, location)
         IN IF cache_key \in DOMAIN redis.store
            THEN json_loads(redis.store[cache_key]) ELSE <<>>

\* cache_results as it would be if it wrote whether or not a backend is there
cache_results_unguarded(platform, keywords, location, results) ==
    LET cache_key == get_cache_key(platform, keywords, location)
    IN [redis EXCEPT !.store =
           [k \in DOMAIN redis.store \cup {cache_key} |->
               IF k = cache_key THEN json_dumps(results)
               ELSE redis.store[k]]]

\* cache_results(platform, keywords, location, results): the backend afterwards
cache_results(platform, keywords, location, results) ==
    IF ~redis.up THEN redis
    ELSE LET cache_key == get_cache_key(platform, keywords, location)
         IN [redis EXCEPT !.store =
                [k \in DOMAIN redis.store \cup {cache_key} |->
                    IF k = cache_key THEN json_dumps(results)
                    ELSE redis.store[k]]]

\* Redis drops an entry when its TTL (setex ttl=3600) runs out
redis_expire(k) ==
    /\ k \in DOMAIN redis.store
    /\ redis' = [redis EXCEPT !.store =
                    [j \in DOMAIN redis.store \ {k} |-> redis.store[j]]]
    /\ UNCHANGED <<EXTRACTING, EXTRACTION_STOP_EVENT, EXTRACTION_DATA,
                   ExtractionSession, thread, futures, all_results,
                   thread_pool>>

\* the attempt loop as it would be without "Cache successful results"
RetryTurn_no_put(attempt, cached_results, outcome) ==
    LET turn == [returned |-> FALSE, result |-> <<>>, raised |-> FALSE,
                 called |-> TRUE, slept |-> FALSE, cached |-> <<>>]
        last == attempt + 1 >= max_retries
    IN IF cached_results # <<>>
       THEN [turn EXCEPT !.returned = TRUE, !.result = cached_results,
                         !.called = FALSE]
       ELSE CASE outcome.kind = "nonlist" ->
                    [turn EXCEPT !.returned = last]
              [] outcome.kind = "raise" ->
                    [turn EXCEPT !.returned = last,
                                 !.slept = attempt < max_retries - 1]
              [] outcome.kind = "list" ->
                    [turn EXCEPT !.returned = TRUE, !.result = outcome.value]

\* the attempt loop as it would be if the last failing attempt re-raised
RetryTurn_reraise(attempt, cached_results, outcome) ==
    LET turn == [returned |-> FALSE, result |-> <<>>, raised |-> FALSE,
                 called |-> TRUE, slept |-> FALSE, cached |-> <<>>]
        last == attempt + 1 >= max_retries
    IN IF cached_results # <<>>
       THEN [turn EXCEPT !.returned = TRUE, !.result = cached_results,
                         !.called = FALSE]
       ELSE CASE outcome.kind = "nonlist" ->
                    [turn EXCEPT !.returned = last]
              [] outcome.kind = "raise" ->
                    [turn EXCEPT !.raised = last, !.slept = ~last]
              [] outcome.kind = "list" ->
                    [turn EXCEPT !.returned = TRUE, !.result = outcome.value,
                                 !.cached = outcome.value]

\* the attempt loop as it would be without the cache check
RetryTurn_uncached(attempt, cached_results, outcome) ==
    LET turn == [returned |-> FALSE, result |-> <<>>, raised |-> FALSE,
                 called |-> TRUE, slept |-> FALSE, cached |-> <<>>]
        last == attempt + 1 >= max_retries
    IN CASE outcome.kind = "nonlist" ->
                 [turn EXCEPT !.returned = last]
           [] outcome.kind = "raise" ->
                 [turn EXCEPT !.returned = last, !.slept = ~last]
           [] outcome.kind = "list" ->
                 [turn EXCEPT !.returned = TRUE, !.result = outcome.value,
                              !.cached = outcome.value]

\* ----------------------------------------------------- run_scraper_with_retry
\* One turn of the attempt loop (app.py:496-528) and, after the last turn, the
\* return [] (app.py:530).  cached_results is what get_cached_results gave,
\* outcome what the collector call does if it is made.  The result tells
\* whether the function returned (and what), whether it raised to its caller,
\* whether the collector was called, whether the turn ended in time.sleep,
\* and what it handed to cache_results (<<>>: nothing).
RetryTurn(attempt, cached_results, outcome) ==
    LET turn == [returned |-> FALSE, result |-> <<>>, raised |-> FALSE,
                 called |-> TRUE, slept |-> FALSE, cached |-> <<>>]
        last == attempt + 1 >= max_retries
    IN IF cached_results # <<>>
       THEN [turn EXCEPT !.returned = TRUE, !.result = cached_results,
                         !.called = FALSE]
       ELSE CASE outcome.kind = "nonlist" ->
                    [turn EXCEPT !.returned = last]
              [] outcome.kind = "raise" ->
                    [turn EXCEPT !.returned = last,
                                 !.slept = attempt < max_retries - 1]
              [] outcome.kind = "list" ->
                    [turn EXCEPT !.returned = TRUE, !.result = outcome.value,
                                 !.cached = outcome.value]

\* ------------------------------------------------------------ POST /extract
\* the verdict as it would be without the "Prevent double-start" check
start_verdict_unguarded(req) ==
    LET parsed == parse_extract_request(req)
    IN IF parsed.keywords = "" /\ parsed.location = "" THEN "InvalidQuery"
       ELSE IF parsed.platforms = <<>> THEN "InvalidQuery"
       ELSE IF Len(parsed.platforms) > MaxPlatforms THEN "InvalidQuery"
       ELSE "accepted"

\* the verdict as it would be without the "Maximum 10 platforms" check
start_verdict_unlimited(req) ==
    LET parsed == parse_extract_request(req)
    IN IF EXTRACTING THEN "AlreadyRunning"
       ELSE IF parsed.keywords = "" /\ parsed.location = ""
       THEN "InvalidQuery"
       ELSE IF parsed.platforms = <<>> THEN "InvalidQuery"
       ELSE "accepted"

\* the verdict of start_extraction's guard and validation (app.py:765-777)
start_verdict(req) ==
    LET parsed == parse_extract_request(req)
    IN IF EXTRACTING THEN "AlreadyRunning"
       ELSE IF parsed.keywords = "" /\ parsed.location = ""
       THEN "InvalidQuery"
       ELSE IF parsed.platforms = <<>> THEN "InvalidQuery"
       ELSE IF Len(parsed.platforms) > MaxPlatforms THEN "InvalidQuery"
       ELSE "accepted"

\* a start that is accepted keeps the platforms of all sessions within the
\* futures the model hands to thread_pool
WithinFutures(req) ==
    start_verdict(req) = "accepted"
    => PlatformCount(Len(ExtractionSession))
          + Len(parse_extract_request(req).platforms) <= MaxFutures

\* start_extraction up to the commit of the new row (app.py:760-802)
start_extraction(req) ==
    LET parsed == parse_extract_request(req)
    IN IF start_verdict(req) # "accepted"
       THEN UNCHANGED <<EXTRACTING, EXTRACTION_STOP_EVENT, EXTRACTION_DATA,
                        ExtractionSession, thread, futures, all_results,
                        thread_pool, redis>>
       ELSE /\ Len(ExtractionSession) < MaxSessions
            /\ ExtractionSession' =
                  Append(ExtractionSession,
                         NewSession(parsed.keywords, parsed.location,
                                    parsed.platforms))
            /\ thread' = Append(thread, "request")
            /\ futures' = Append(futures, <<>>)
            /\ all_results' = Append(all_results, <<>>)
            /\ UNCHANGED <<EXTRACTING, EXTRACTION_STOP_EVENT, EXTRACTION_DATA,
                           thread_pool, redis>>

\* start_extraction from the clean-slate step on (app.py:804-834):
\* started is whether Thread.start() returned rather than raised
start_extraction_launch(s, started) ==
    /\ thread[s] = "request"
    /\ EXTRACTION_DATA' = <<>>
    /\ EXTRACTION_STOP_EVENT' = FALSE
    /\ IF started
       THEN /\ EXTRACTING' = TRUE
            /\ thread' = [thread EXCEPT ![s] = "worker"]
            /\ UNCHANGED ExtractionSession
       ELSE /\ EXTRACTING' = FALSE
            /\ ExtractionSession' =
                  [ExtractionSession EXCEPT ![s].status = "failed",
                                            ![s].finished_at = now(@)]
            /\ thread' = [thread EXCEPT ![s] = "exit"]
    /\ UNCHANGED <<futures, all_results, thread_pool, redis>>

\* ----------------------------------------------------- POST /stop-extraction
\* the verdict of stop_extraction's guard (app.py:843-844)
stop_verdict == IF ~EXTRACTING THEN "no_extraction" ELSE "stop_requested"

stop_extraction ==
    IF stop_verdict = "no_extraction"
    THEN UNCHANGED <<EXTRACTING, EXTRACTION_STOP_EVENT, EXTRACTION_DATA,
                     ExtractionSession, thread, futures, all_results,
                     thread_pool, redis>>
    ELSE /\ EXTRACTION_STOP_EVENT' = TRUE
         /\ EXTRACTING' = FALSE
         /\ ExtractionSession' =
               [s \in Sessions |->
                   IF ExtractionSession[s].status = "running"
                   THEN [ExtractionSession[s] EXCEPT !.status = "stopped",
                                                     !.finished_at = now(@)]
                   ELSE ExtractionSession[s]]
         /\ UNCHANGED <<EXTRACTION_DATA, thread, futures, all_results,
                        thread_pool, redis>>

\* --------------------------------------------------- start_extraction_worker
\* "Clear previous results" (app.py:687-689)
worker_clear(s) ==
    /\ thread[s] = "worker"
    /\ EXTRACTION_DATA' = <<>>
    /\ thread' = [thread EXCEPT ![s] = "submit"]
    /\ UNCHANGED <<EXTRACTING, EXTRACTION_STOP_EVENT, ExtractionSession,
                   futures, all_results, thread_pool, redis>>

\* run_scrapers_concurrently, the submit loop (app.py:534-540): n platforms
\* are submitted; n short of the list means thread_pool.submit raised, which
\* leaves run_scrapers_concurrently and lands in the worker's except clause
run_scrapers_concurrently_submit(s, n) ==
    /\ thread[s] = "submit"
    /\ futures' = [futures EXCEPT ![s] = [i \in 1..n |-> NewFuture]]
    /\ thread_pool' = thread_pool \o [i \in 1..n |-> <<s, i>>]
    /\ thread' = [thread EXCEPT ![s] =
                    IF n = Len(ExtractionSession[s].platforms)
                    THEN "collect" ELSE "except"]
    /\ UNCHANGED <<EXTRACTING, EXTRACTION_STOP_EVENT, EXTRACTION_DATA,
                   ExtractionSession, all_results, redis>>

\* run_scrapers_concurrently, one turn of the as_completed loop
\* (app.py:543-562) for the finished future i
run_scrapers_concurrently_collect(s, i) ==
    /\ thread[s] = "collect"
    /\ futures[s][i].state = "FINISHED"
    /\ futures' = [futures EXCEPT ![s][i] = YieldedFuture]
    /\ LET platform_results == futures[s][i].result
           extended == all_results[s] \o platform_results
       IN IF ~futures[s][i].exception /\ platform_results # <<>>
          THEN /\ all_results' = [all_results EXCEPT ![s] = extended]
               /\ ExtractionSession' =
                     [ExtractionSession EXCEPT
                         ![s].total_results = Len(extended)]
          ELSE UNCHANGED <<all_results, ExtractionSession>>
    /\ UNCHANGED <<EXTRACTING, EXTRACTION_STOP_EVENT, EXTRACTION_DATA,
                   thread, thread_pool, redis>>

\* "Store results in global variable and database" (app.py:694-722), reached
\* when as_completed has yielded every future; the locals of
\* run_scrapers_concurrently are gone, results is not read after this
worker_store(s) ==
    /\ thread[s] = "collect"
    /\ \A i \in 1..Len(futures[s]) : futures[s][i].state = "YIELDED"
    /\ LET results == all_results[s]
       IN IF results # <<>>
          THEN /\ EXTRACTION_DATA' = EXTRACTION_DATA \o results
               /\ ExtractionSession' =
                     [ExtractionSession EXCEPT
                         ![s].extracted_data = @ \o results,
                         ![s].total_results = Len(results),
                         ![s].finished_at = now(@),
                         ![s].status = "completed"]
          ELSE UNCHANGED <<EXTRACTION_DATA, ExtractionSession>>
    /\ futures' = [futures EXCEPT ![s] = <<>>]
    /\ all_results' = [all_results EXCEPT ![s] = <<>>]
    /\ thread' = [thread EXCEPT ![s] = "mark"]
    /\ UNCHANGED <<EXTRACTING, EXTRACTION_STOP_EVENT, thread_pool, redis>>

\* the marking as it would be if a run without results counted as a failure
worker_mark_completed_fails_empty(s) ==
    /\ thread[s] = "mark"
    /\ ExtractionSession' =
          [ExtractionSession EXCEPT
              ![s].finished_at = IF @ = 0 THEN now(@) ELSE @,
              ![s].status =
                  IF @ = "running"
                  THEN IF ExtractionSession[s].total_results = 0
                       THEN "failed" ELSE "completed"
                  ELSE @]
    /\ thread' = [thread EXCEPT ![s] = "finally"]
    /\ UNCHANGED <<EXTRACTING, EXTRACTION_STOP_EVENT, EXTRACTION_DATA,
                   futures, all_results, thread_pool, redis>>

\* "Mark session as completed" (app.py:724-735)
worker_mark_completed(s) ==
    /\ thread[s] = "mark"
    /\ ExtractionSession' =
          [ExtractionSession EXCEPT
              ![s].finished_at = IF @ = 0 THEN now(@) ELSE @,
              ![s].status = IF @ = "running" THEN "completed" ELSE @]
    /\ thread' = [thread EXCEPT ![s] = "finally"]
    /\ UNCHANGED <<EXTRACTING, EXTRACTION_STOP_EVENT, EXTRACTION_DATA,
                   futures, all_results, thread_pool, redis>>

\* the except clause as it would be if it set the status and no finished_at
worker_mark_failed_no_finished_at(s) ==
    /\ thread[s] = "except"
    /\ ExtractionSession' =
          [ExtractionSession EXCEPT ![s].status = "failed"]
    /\ thread' = [thread EXCEPT ![s] = "finally"]
    /\ UNCHANGED <<EXTRACTING, EXTRACTION_STOP_EVENT, EXTRACTION_DATA,
                   futures, all_results, thread_pool, redis>>

\* "Mark session as failed" (app.py:737-748)
worker_mark_failed(s) ==
    /\ thread[s] = "except"
    /\ ExtractionSession' =
          [ExtractionSession EXCEPT ![s].finished_at = now(@),
                                    ![s].status = "failed"]
    /\ thread' = [thread EXCEPT ![s] = "finally"]
    /\ UNCHANGED <<EXTRACTING, EXTRACTION_STOP_EVENT, EXTRACTION_DATA,
                   futures, all_results, thread_pool, redis>>

\* the worker's exit as it would be if it left the guard alone
worker_finally_keeps_guard(s) ==
    /\ thread[s] = "finally"
    /\ EXTRACTION_STOP_EVENT' = FALSE
    /\ thread' = [thread EXCEPT ![s] = "exit"]
    /\ UNCHANGED <<EXTRACTING, EXTRACTION_DATA, ExtractionSession, futures,
                   all_results, thread_pool, redis>>

\* the finally clause (app.py:750-754)
worker_finally(s) ==
    /\ thread[s] = "finally"
    /\ EXTRACTION_STOP_EVENT' = FALSE
    /\ EXTRACTING' = FALSE
    /\ thread' = [thread EXCEPT ![s] = "exit"]
    /\ UNCHANGED <<EXTRACTION_DATA, ExtractionSession, futures, all_results,
                   thread_pool, redis>>

\* ---------------------------------------------------------------- executor
\* the executor as it would be with a pool thread for every item submitted
thread_pool_run_unbounded ==
    /\ thread_pool # <<>>
    /\ LET t == Head(thread_pool)
       IN futures' = [futures EXCEPT ![t[1]][t[2]].state = "RUNNING"]
    /\ thread_pool' = Tail(thread_pool)
    /\ UNCHANGED <<EXTRACTING, EXTRACTION_STOP_EVENT, EXTRACTION_DATA,
                   ExtractionSession, thread, all_results, redis>>

\* an idle pool thread takes the head of the work queue
thread_pool_run ==
    /\ thread_pool # <<>>
    /\ Cardinality(Running) < max_workers
    /\ LET t == Head(thread_pool)
       IN futures' = [futures EXCEPT ![t[1]][t[2]].state = "RUNNING"]
    /\ thread_pool' = Tail(thread_pool)
    /\ UNCHANGED <<EXTRACTING, EXTRACTION_STOP_EVENT, EXTRACTION_DATA,
                   ExtractionSession, thread, all_results, redis>>

\* run_scraper_with_retry on a pool thread: one turn of the running future
\* <<s, i>>; attempt is a local, gone when the function returns
run_scraper_with_retry(s, i, outcome) ==
    /\ futures[s][i].state = "RUNNING"
    /\ LET f == futures[s][i]
           platform == ExtractionSession[s].platforms[i]
           keywords == ExtractionSession[s].keywords
           location == ExtractionSession[s].location
           turn == RetryTurn(f.attempt,
                             get_cached_results(platform, keywords, location),
                             outcome)
       IN /\ futures' =
                [futures EXCEPT ![s][i] =
                    IF turn.returned \/ turn.raised
                    THEN [state |-> "FINISHED", attempt |-> 0,
                          result |-> turn.result, exception |-> turn.raised]
                    ELSE [f EXCEPT !.attempt = @ + 1]]
          /\ redis' = IF turn.cached # <<>>
                      THEN cache_results(platform, keywords, location,
                                         turn.cached)
                      ELSE redis
    /\ UNCHANGED <<EXTRACTING, EXTRACTION_STOP_EVENT, EXTRACTION_DATA,
                   ExtractionSession, thread, all_results, thread_pool>>

\* ------------------------------------------------------------- specification
\* the steps of the background threads: worker, executor, pool threads.  A
\* cache entry lives an hour (ttl=3600); its expiry is a step of RunnerSpec.
Background ==
    \/ \E s \in Sessions : worker_clear(s)
    \/ \E s \in Sessions :
          \E n \in 0..Len(ExtractionSession[s].platforms) :
             run_scrapers_concurrently_submit(s, n)
    \/ \E s \in Sessions :
          \E i \in DOMAIN futures[s] : run_scrapers_concurrently_collect(s, i)
    \/ \E s \in Sessions : worker_store(s)
    \/ \E s \in Sessions : worker_mark_completed(s)
    \/ \E s \in Sessions : worker_mark_failed(s)
    \/ \E s \in Sessions : worker_finally(s)
    \/ thread_pool_run
    \/ \E s \in Sessions :
          \E i \in DOMAIN futures[s] :
             \E outcome \in CollectorOutcomes(ExtractionSession[s].platforms[i]) :
                run_scraper_with_retry(s, i, outcome)

Next ==
    \/ /\ \E req \in ExtractRequests :
             WithinFutures(req) /\ start_extraction(req)
       /\ UNCHANGED <<handled, run, phone>>
    \/ /\ \E s \in Sessions, started \in BOOLEAN :
             start_extraction_launch(s, started)
       /\ UNCHANGED <<handled, run, phone>>
    \/ stop_extraction /\ UNCHANGED <<handled, run, phone>>
    \/ Background /\ UNCHANGED <<handled, run, phone>>

Spec == Init /\ [][Next]_vars

\* FairSpec: every thread that can take a step eventually takes one: the
\* request thread finishes its handler, the worker, the executor and the
\* pool threads run on (every collector call returns)
FairSpec ==
    /\ Spec
    /\ WF_vars(/\ \E s \in Sessions, started \in BOOLEAN :
                     start_extraction_launch(s, started)
               /\ UNCHANGED <<handled, run, phone>>)
    /\ WF_vars(Background /\ UNCHANGED <<handled, run, phone>>)

\* ApiSpec: the handlers also leave behind what they were asked and answered
NextApi ==
    \/ \E req \in ExtractRequests :
          /\ WithinFutures(req)
          /\ start_extraction(req)
          /\ handled' = Handled("start_extraction", req, start_verdict(req))
          /\ UNCHANGED <<run, phone>>
    \/ \E s \in Sessions, started \in BOOLEAN :
          /\ start_extraction_launch(s, started)
          /\ handled' = Handled("start_extraction_launch", NoRequest,
                                IF started THEN "started" ELSE "failed")
          /\ UNCHANGED <<run, phone>>
    \/ /\ stop_extraction
       /\ handled' = Handled("stop_extraction", NoRequest, stop_verdict)
       /\ UNCHANGED <<run, phone>>
    \/ Background /\ UNCHANGED <<handled, run, phone>>

ApiSpec == Init /\ [][NextApi]_vars

\* ------------------------------------------------------------------ PoolSpec
\* One accepted session with more platforms than the executor has threads,
\* taken from the point where its worker enters run_scrapers_concurrently:
\* the submit loop, the pool threads taking items off the queue, and the
\* invocations running to their return.
PoolPlatforms == [i \in 1..MaxPoolPlatforms |-> "yelp"]

InitPool ==
    /\ EXTRACTING = TRUE
    /\ EXTRACTION_STOP_EVENT = FALSE
    /\ EXTRACTION_DATA = <<>>
    /\ ExtractionSession = <<NewSession("pizza", "NY", PoolPlatforms)>>
    /\ thread = <<"submit">>
    /\ futures = << <<>> >>
    /\ all_results = << <<>> >>
    /\ thread_pool = <<>>
    /\ redis = [up |-> TRUE, store |-> <<>>]
    /\ handled = Handled("none", NoRequest, "none")
    /\ run = NoRun
    /\ phone = NoPhone

NextPool ==
    \/ \E s \in Sessions :
          \E n \in 0..Len(ExtractionSession[s].platforms) :
             /\ run_scrapers_concurrently_submit(s, n)
             /\ UNCHANGED <<handled, run, phone>>
    \/ thread_pool_run /\ UNCHANGED <<handled, run, phone>>
    \/ \E s \in Sessions :
          \E i \in DOMAIN futures[s] :
             \E outcome \in CollectorOutcomes(ExtractionSession[s].platforms[i]) :
                /\ run_scraper_with_retry(s, i, outcome)
                /\ UNCHANGED <<handled, run, phone>>

PoolSpec == InitPool /\ [][NextPool]_vars

\* ---------------------------------------------------------------- IntakeSpec
\* The request handlers on their own, before any worker has been scheduled,
\* for a wider set of /extract bodies: lists of 10 and 11 ids, with and without
\* an unknown id among them, and text that is only white space.
IntakeRequests ==
    ExtractRequests
    \cup { [keywords |-> " ", location |-> " ", platforms |-> <<"yelp">>],
           [keywords |-> "", location |-> "NY", platforms |-> <<"", "bogus">>],
           [keywords |-> "pizza", location |-> "",
            platforms |-> [i \in 1..10 |-> "yelp"]],
           [keywords |-> "pizza", location |-> "NY",
            platforms |-> [i \in 1..10 |-> "yelp"] \o <<"bogus">>],
           [keywords |-> "pizza", location |-> "NY",
            platforms |-> <<"bogus">> \o [i \in 1..11 |-> "manta"]] }

NextIntake ==
    \/ \E req \in IntakeRequests :
          /\ start_extraction(req)
          /\ handled' = Handled("start_extraction", req, start_verdict(req))
          /\ UNCHANGED <<run, phone>>
    \/ \E s \in Sessions, started \in BOOLEAN :
          /\ start_extraction_launch(s, started)
          /\ handled' = Handled("start_extraction_launch", NoRequest,
                                IF started THEN "started" ELSE "failed")
          /\ UNCHANGED <<run, phone>>
    \/ /\ stop_extraction
       /\ handled' = Handled("stop_extraction", NoRequest, stop_verdict)
       /\ UNCHANGED <<run, phone>>

IntakeSpec == Init /\ [][NextIntake]_vars

\* ---------------------------------------------------------------- RunnerSpec
\* One invocation run_scraper_with_retry(platform, keywords, location) taken
\* on its own: run carries its loop variable and return value, and counts its
\* collector calls and sleeps.  Redis may be absent, cold or warm when the
\* invocation starts, entries expire, and other invocations write entries.
RunnerPlatforms == {"yelp", "manta"}

\* the non-empty lists another invocation may have handed to cache_results
Cacheable(platform) == CollectorLists(platform) \ {<<>>}

InitRunner ==
    /\ InitCore
    /\ \E u \in BOOLEAN, warm \in SUBSET RunnerPlatforms :
          redis = [up |-> u,
                   store |-> IF u
                             THEN [k \in {get_cache_key(p, "pizza", "NY") :
                                            p \in warm} |->
                                      LET p == CHOOSE q \in warm :
                                              k = get_cache_key(q, "pizza",
                                                                "NY")
                                      IN json_dumps(CHOOSE l \in Cacheable(p) :
                                                       TRUE)]
                             ELSE <<>>]
    /\ \E p \in RunnerPlatforms :
          run = [NoRun EXCEPT !.platform = p, !.keywords = "pizza",
                              !.location = "NY", !.state = "RUNNING"]

\* one turn of the observed invocation
runner_turn(outcome) ==
    /\ run.state = "RUNNING"
    /\ LET cached_results ==
               get_cached_results(run.platform, run.keywords, run.location)
           turn == RetryTurn(run.attempt, cached_results, outcome)
       IN /\ run' = [run EXCEPT
                       !.state = IF turn.returned \/ turn.raised
                                 THEN "FINISHED" ELSE "RUNNING",
                       !.attempt = IF turn.returned \/ turn.raised
                                   THEN 0 ELSE @ + 1,
                       !.result = turn.result,
                       !.exception = turn.raised,
                       !.calls = IF turn.called THEN @ + 1 ELSE @,
                       !.sleeps = IF turn.slept THEN @ + 1 ELSE @,
                       !.succeeded = \/ cached_results # <<>>
                                     \/ turn.called /\ outcome.kind = "list"]
          /\ redis' = IF turn.cached # <<>>
                      THEN cache_results(run.platform, run.keywords,
                                         run.location, turn.cached)
                      ELSE redis
    /\ UNCHANGED <<EXTRACTING, EXTRACTION_STOP_EVENT, EXTRACTION_DATA,
                   ExtractionSession, thread, futures, all_results,
                   thread_pool, handled, phone>>

\* another invocation's successful call reaches cache_results (app.py:515-516)
cache_results_by_other(platform, results) ==
    /\ redis.up
    /\ redis' = cache_results(platform, "pizza", "NY", results)
    /\ UNCHANGED <<EXTRACTING, EXTRACTION_STOP_EVENT, EXTRACTION_DATA,
                   ExtractionSession, thread, futures, all_results,
                   thread_pool, handled, run, phone>>

NextRunner ==
    \/ \E outcome \in CollectorOutcomes(run.platform) : runner_turn(outcome)
    \/ \E p \in RunnerPlatforms :
          \E l \in Cacheable(p) : cache_results_by_other(p, l)
    \/ /\ \E k \in DOMAIN redis.store : redis_expire(k)
       /\ UNCHANGED <<handled, run, phone>>

RunnerSpec == InitRunner /\ [][NextRunner]_vars

\* ----------------------------------------------------------------- PhoneSpec
\* The phone-number functions on their own: a phone text is typed character
\* by character, then handed to format_phone (as enhanced_scrapers.py does
\* with the digits of a candidate) and to validate_phone_number (as
\* scrapers.py does with a card's phone text).
PhoneChars == {"1", "5", "-"}

\* one more character of the phone text
phone_type(c) ==
    /\ phone.state = "TEXT"
    /\ Len(phone.text) < MaxPhoneLen
    /\ phone' = [phone EXCEPT !.text = Append(@, c)]
    /\ UNCHANGED <<core, handled, run>>

\* format_phone(text) and validate_phone_number(text) return
phone_canonicalize ==
    /\ phone.state = "TEXT"
    /\ phone' = [phone EXCEPT !.state = "DONE",
                              !.formatted = format_phone(phone.text),
                              !.validated = validate_phone_number(phone.text)]
    /\ UNCHANGED <<core, handled, run>>

NextPhone ==
    \/ \E c \in PhoneChars : phone_type(c)
    \/ phone_canonicalize

PhoneSpec == Init /\ [][NextPhone]_vars

\* ------------------------------------------------------------- DecoratorSpec
\* One call of a collector wrapped by @retry(max_retries=2, delay_seconds=2)
\* (enhanced_scrapers.py, simple_scrapers.py) or by
\* @scraper_error_handler(max_retries=2) (scrapers.py): run carries the
\* wrapper's loop variable, its calls of the wrapped function, the sleeps it
\* made and what it returned.
Decorators == {"retry", "scraper_error_handler"}

DecoratedCollectors == {"yelp", "manta", "yellowpages"}

\* what one call of the wrapped function can do: what CollectorOutcomes says,
\* or raise PlaywrightTimeoutError
WrappedOutcomes(fn) ==
    CollectorOutcomes(fn) \cup {[kind |-> "timeout", value |-> <<>>]}

\* the empty list the wrappers return when every attempt raised
EmptyList == [kind |-> "list", value |-> <<>>]

\* nothing returned yet
NoResult == [kind |-> "none", value |-> <<>>]

\* one turn of retry's loop as it would be if it slept after every failure
retry_wrapper_sleeps_after_last(attempt, outcome) ==
    IF outcome.kind \in {"raise", "timeout"}
    THEN [returned |-> attempt >= retry_max_retries, result |-> EmptyList,
          raised |-> FALSE, last_exc |-> outcome.kind,
          slept |-> delay_seconds * (attempt + 1)]
    ELSE [returned |-> TRUE, result |-> outcome, raised |-> FALSE,
          last_exc |-> "none", slept |-> 0]

\* one turn of the loop of retry's wrapper (enhanced_scrapers.py:42-51):
\* whether the wrapper returned (and what), whether it raised to its caller,
\* the exception it caught, and the seconds it slept (0: no sleep)
retry_wrapper(attempt, outcome) ==
    IF outcome.kind \in {"raise", "timeout"}
    THEN [returned |-> attempt >= retry_max_retries, result |-> EmptyList,
          raised |-> FALSE, last_exc |-> outcome.kind,
          slept |-> IF attempt < retry_max_retries
                    THEN delay_seconds * (attempt + 1) ELSE 0]
    ELSE [returned |-> TRUE, result |-> outcome, raised |-> FALSE,
          last_exc |-> "none", slept |-> 0]

\* one turn of the loop of scraper_error_handler's wrapper (scrapers.py:19-35)
scraper_error_handler_wrapper(attempt, outcome) ==
    CASE outcome.kind = "timeout" ->
            IF attempt < retry_max_retries
            THEN [returned |-> FALSE, result |-> EmptyList, raised |-> FALSE,
                  last_exc |-> "timeout",
                  slept |-> delay_seconds * (attempt + 1)]
            ELSE [returned |-> TRUE, result |-> EmptyList, raised |-> FALSE,
                  last_exc |-> "timeout", slept |-> 0]
      [] outcome.kind = "raise" ->
            IF attempt < retry_max_retries
            THEN [returned |-> FALSE, result |-> EmptyList, raised |-> FALSE,
                  last_exc |-> "raise",
                  slept |-> delay_seconds * (attempt + 1)]
            ELSE [returned |-> TRUE, result |-> EmptyList, raised |-> FALSE,
                  last_exc |-> "raise", slept |-> 0]
      [] OTHER ->
            [returned |-> TRUE, result |-> outcome, raised |-> FALSE,
             last_exc |-> "none", slept |-> 0]

InitDecorator ==
    /\ InitCore
    /\ redis = [up |-> TRUE, store |-> <<>>]
    /\ \E d \in Decorators, fn \in DecoratedCollectors :
          run = [decorator |-> d, fn |-> fn, state |-> "RUNNING",
                 attempt |-> 0, calls |-> 0, waits |-> <<>>,
                 last_exc |-> "none", result |-> NoResult,
                 exception |-> FALSE]

\* one turn of the wrapper's loop: the wrapped function is called
wrapper_turn(outcome) ==
    /\ run.state = "RUNNING"
    /\ LET turn == IF run.decorator = "retry"
                   THEN retry_wrapper(run.attempt, outcome)
                   ELSE scraper_error_handler_wrapper(run.attempt, outcome)
       IN run' = [run EXCEPT
                    !.state = IF turn.returned \/ turn.raised
                              THEN "FINISHED" ELSE "RUNNING",
                    !.attempt = IF turn.returned \/ turn.raised
                                THEN @ ELSE @ + 1,
                    !.calls = @ + 1,
                    !.waits = IF turn.slept # 0
                              THEN Append(@, turn.slept) ELSE @,
                    !.last_exc = IF turn.last_exc # "none"
                                 THEN turn.last_exc ELSE @,
                    !.result = IF turn.returned THEN turn.result ELSE @,
                    !.exception = turn.raised]
    /\ UNCHANGED <<core, handled, phone>>

NextDecorator == \E outcome \in WrappedOutcomes(run.fn) : wrapper_turn(outcome)

DecoratorSpec == InitDecorator /\ [][NextDecorator]_vars

\* ----------------------------------------------------------------- CacheSpec
\* The cache helpers on their own: cache_results and get_cached_results
\* called for queries whose keywords and location may hold a ':', entries
\* expiring in between.
CacheTriples ==
    [platform : {"yelp", "manta"},
     keywords : {"pizza", "pizza:best"},
     location : {"NY", "best:NY"}]

\* cache_results(platform, keywords, location, results) returns
cache_put(t, results) ==
    /\ redis' = cache_results(t.platform, t.keywords, t.location, results)
    /\ handled' = Handled("cache_results", t, results)
    /\ UNCHANGED <<EXTRACTING, EXTRACTION_STOP_EVENT, EXTRACTION_DATA,
                   ExtractionSession, thread, futures, all_results,
                   thread_pool, run, phone>>

\* get_cached_results(platform, keywords, location) returns
cache_get(t) ==
    /\ handled' = Handled("get_cached_results", t,
                          get_cached_results(t.platform, t.keywords,
                                             t.location))
    /\ UNCHANGED <<core, run, phone>>

NextCache ==
    \/ \E t \in CacheTriples :
          \E results \in Cacheable(t.platform) : cache_put(t, results)
    \/ \E t \in CacheTriples : cache_get(t)
    \/ /\ \E k \in DOMAIN redis.store : redis_expire(k)
       /\ UNCHANGED <<handled, run, phone>>

CacheSpec == Init /\ [][NextCache]_vars

\* ------------------------------------------------------------- CandidateSpec
\* extract_phone_candidates on its own, applied to texts put together from
\* pieces as a listing card carries them: a country code, a number in one of
\* three spellings, an extension, a blank.
PhoneChunks ==
    { <<"+", "1", " ">>,
      <<"1">>,
      <<"(", "2", "1", "2", ")", " ", "5", "5", "5", "-", "0", "1", "0", "0">>,
      <<"2", "1", "2", ".", "5", "5", "5", ".", "0", "1", "0", "0">>,
      <<"2", "1", "2", "5", "5", "5", "0", "1", "0", "0">>,
      <<" ", "x", "5">>,
      <<"x", "1", "2", "3", "4", "5">>,
      <<" ">> }

RECURSIVE ChunkTexts(_)
\* the texts made of at most n pieces
ChunkTexts(n) ==
    IF n = 0 THEN {<<>>}
    ELSE ChunkTexts(n - 1)
         \cup {t \o c : t \in ChunkTexts(n - 1), c \in PhoneChunks}

InitCandidates ==
    /\ EXTRACTING = FALSE
    /\ EXTRACTION_STOP_EVENT = FALSE
    /\ EXTRACTION_DATA = <<>>
    /\ ExtractionSession = <<>>
    /\ thread = <<>>
    /\ futures = <<>>
    /\ all_results = <<>>
    /\ thread_pool = <<>>
    /\ redis = [up |-> TRUE, store |-> <<>>]
    /\ handled = Handled("none", NoRequest, "none")
    /\ run = NoRun
    /\ \E text \in ChunkTexts(MaxChunks) :
          phone = [NoPhone EXCEPT !.text = text]

\* extract_phone_candidates(text) returns
phone_extract ==
    /\ phone.state = "TEXT"
    /\ phone' = [phone EXCEPT
                    !.state = "DONE",
                    !.candidates = extract_phone_candidates(phone.text)]
    /\ UNCHANGED <<core, handled, run>>

NextCandidates == phone_extract

CandidateSpec == InitCandidates /\ [][NextCandidates]_vars

\* ===================================================================== claims
\* the status column of session s
Status(s) == ExtractionSession[s].status

\* a body of POST /extract that passes validation
ValidRequest ==
    [keywords |-> "pizza", location |-> "NY", platforms |-> <<"yelp", "manta">>]

\* the body names a platform id that is no key of scraper_functions
HasUnknownPlatform(req) ==
    \E i \in DOMAIN req.platforms : req.platforms[i] \notin scraper_functions

\* the ids of the body that are keys of scraper_functions, in the body's order
KnownPlatforms(req) ==
    SelectSeq(req.platforms, LAMBDA p : p \in scraper_functions)

\* C1: in every reachable state at most one session has status running.
C1_AtMostOneRunning ==
    Cardinality({s \in Sessions : Status(s) = "running"}) <= 1

\* C2: a start_extraction step taken while EXTRACTING is set answers
\* AlreadyRunning and changes nothing: no session row, no worker thread, the
\* guard, the stop event and EXTRACTION_DATA as they were.
C2_StartWhileRunningRejected ==
    [][(/\ EXTRACTING
        /\ handled'.op = "start_extraction"
        /\ start_extraction(handled'.req))
       => /\ handled'.result = "AlreadyRunning"
          /\ UNCHANGED core]_vars

C2_Witness ==
    /\ EXTRACTING
    /\ handled.op = "start_extraction"
    /\ handled.result = "AlreadyRunning"
    /\ \E s \in Sessions : Status(s) = "running"

\* C3: the records kept for a session hold at most one record per canonical
\* phone number.
C3_OnePerCanonicalPhone ==
    \A s \in Sessions :
       LET rows == ExtractionSession[s].extracted_data
       IN \A i, j \in DOMAIN rows :
             i # j => CanonicalPhone(rows[i].number)
                         # CanonicalPhone(rows[j].number)

\* C4: a session that a stop request has marked stopped is never marked
\* completed afterwards.
C4_StoppedNeverCompleted ==
    [][\A s \in Sessions :
          Status(s) = "stopped" => ExtractionSession'[s].status # "completed"
      ]_vars

\* C5: once a session is completed, failed or stopped, no step changes its
\* status or its finished_at.
C5_TerminalImmutable ==
    [][\A s \in Sessions :
          Status(s) \in Terminal
          => /\ ExtractionSession'[s].status = Status(s)
             /\ ExtractionSession'[s].finished_at
                   = ExtractionSession[s].finished_at
      ]_vars

\* C6: while the stop event is set no future begins to execute: the futures
\* running after a step were running before it.
C6_NoStartAfterStop ==
    [][EXTRACTION_STOP_EVENT => Running' \subseteq Running]_vars

\* C7: an invocation of run_scraper_with_retry calls the collector at most 3
\* times, never raises to its caller, and returns [] when neither the cache
\* nor any call gave it a list.
C7_RetryBound ==
    /\ run.calls <= 3
    /\ ~run.exception
    /\ (run.state = "FINISHED" /\ ~run.succeeded) => run.result = <<>>

C7_Witness ==
    /\ run.state = "FINISHED"
    /\ run.calls = 3
    /\ ~run.succeeded
    /\ run.result = <<>>

\* C8: a turn of run_scraper_with_retry that finds the cache entry of its
\* (platform, keywords, location) present returns the cached value, without
\* calling the collector and without sleeping.
C8_CacheShortCircuit ==
    [][LET cached_results ==
              get_cached_results(run.platform, run.keywords, run.location)
       IN (run.state = "RUNNING" /\ cached_results # <<>> /\ run' # run)
          => /\ run'.state = "FINISHED"
             /\ run'.result = cached_results
             /\ ~run'.exception
             /\ run'.calls = run.calls
             /\ run'.sleeps = run.sleeps
      ]_vars

C8_Witness ==
    /\ run.state = "FINISHED"
    /\ run.calls = 0
    /\ run.sleeps = 0
    /\ run.result # <<>>

\* C9: every session start_extraction has created is eventually terminal with
\* its thread gone and the guard clear, so that a valid start is accepted; and
\* every step by which a worker exits leaves the guard clear.
C9_EveryStartTerminates ==
    /\ \A s \in 1..MaxSessions :
          [](s \in Sessions
             => <>(/\ s \in Sessions
                   /\ Status(s) \in Terminal
                   /\ thread[s] = "exit"
                   /\ ~EXTRACTING
                   /\ start_verdict(ValidRequest) = "accepted"))
    /\ [][\A s \in Sessions :
             (thread[s] # "exit" /\ thread'[s] = "exit") => ~EXTRACTING'
         ]_vars

C9_Witness ==
    \E s \in Sessions :
       /\ thread[s] = "exit"
       /\ Status(s) = "completed"
       /\ ExtractionSession[s].total_results > 0
       /\ ~EXTRACTING

InvalidAsSupplied(req) ==
    \/ req.keywords = "" /\ req.location = ""
    \/ req.platforms = <<>>
    \/ Len(req.platforms) > 10

\* the same, read off the body once its text is stripped and the ids that are
\* no key of scraper_functions are dropped
InvalidAsParsed(req) ==
    \/ strip(req.keywords) = "" /\ strip(req.location) = ""
    \/ KnownPlatforms(req) = <<>>
    \/ Len(KnownPlatforms(req)) > 10

C12_CollectorFailuresNeverFail ==
    [][\A s \in Sessions :
          /\ (Status(s) # "failed" /\ ExtractionSession'[s].status = "failed")
                => thread[s] \in {"request", "except"}
          /\ (thread[s] # "except" /\ thread'[s] = "except")
                => thread[s] = "submit"
          /\ (thread[s] = "mark" /\ thread'[s] = "finally")
                => /\ ExtractionSession'[s].status \in {"completed", "stopped"}
                   /\ Status(s) \in {"running", "completed"}
                         => ExtractionSession'[s].status = "completed"
      ]_vars

\* manta has failed on all its attempts (it never returns an empty list),
\* no stop has written the row, and the session is completed with no results
C12_Witness ==
    \E s \in Sessions :
       /\ ExtractionSession[s].platforms = <<"yelp", "manta">>
       /\ thread[s] = "exit"
       /\ Status(s) = "completed"
       /\ ExtractionSession[s].total_results = 0
       /\ ExtractionSession[s].finished_at = 1

\* C13: every record kept, in EXTRACTION_DATA and in a session's persisted
\* rows, has a phone number that canonicalises (its digits are 10, or 11 with
\* a leading 1) and is not the sentinel N/A.
C13_KeptRecordsCanonical ==
    /\ \A i \in DOMAIN EXTRACTION_DATA :
          Formattable(StripNonDigits(EXTRACTION_DATA[i].number))
    /\ \A s \in Sessions :
          \A i \in DOMAIN ExtractionSession[s].extracted_data :
             Formattable(StripNonDigits(
                ExtractionSession[s].extracted_data[i].number))

\* the text is made of digits only
IsDigitString(text) == \A i \in 1..Len(text) : text[i] \in DigitChars

\* (DDD) DDD-DDDD of a 10-digit string
Parenthesised(D) ==
    <<"(", D[1], D[2], D[3], ")", " ", D[4], D[5], D[6], "-",
      D[7], D[8], D[9], D[10]>>

\* C14: every 10-digit digit string D, whatever its first digit, is formatted
\* as (DDD) DDD-DDDD by format_phone and by validate_phone_number, and
\* stripping the non-digits from that string gives D back.
C14_TenDigitRoundTrip ==
    (phone.state = "DONE" /\ IsDigitString(phone.text)
       /\ Len(phone.text) = 10)
    => /\ phone.formatted = Parenthesised(phone.text)
       /\ phone.validated = Parenthesised(phone.text)
       /\ StripNonDigits(phone.formatted) = phone.text
       /\ StripNonDigits(phone.validated) = phone.text

C14_Witness ==
    /\ phone.state = "DONE"
    /\ IsDigitString(phone.text) /\ Len(phone.text) = 10
    /\ phone.text[1] = "1"
    /\ phone.formatted = Parenthesised(phone.text)
    /\ StripNonDigits(phone.formatted) = phone.text

\* C15: a digit string that has neither 10 digits nor 11 digits with a
\* leading 1 is rejected by format_phone: it returns None, not a string.
C15_OthersReturnNone ==
    (phone.state = "DONE" /\ IsDigitString(phone.text)
       /\ ~Formattable(phone.text))
    => phone.formatted = None

\* C16: total_results of a session never decreases while the session is
\* running, and no step changes it once the session is completed, failed or
\* stopped.
C16_ResultCountFrozen ==
    [][\A s \in Sessions :
          LET before == ExtractionSession[s].total_results
              after == ExtractionSession'[s].total_results
          IN /\ Status(s) = "running" => after >= before
             /\ Status(s) \in Terminal => after = before
      ]_vars

\* C17: a stop_extraction step taken when there are sessions and none of them
\* is running changes nothing: statuses, finished_at, the guard and the stop
\* event stay as they were.
C17_StopWithoutRunningIsNoOp ==
    [][(/\ Sessions # {}
        /\ \A s \in Sessions : Status(s) # "running"
        /\ stop_extraction)
       => UNCHANGED core]_vars

\* C18: a session has status stopped only when none of its futures is
\* executing on a pool thread.
C18_StoppedOnlyWhenDrained ==
    \A s \in Sessions :
       Status(s) = "stopped"
       => \A i \in DOMAIN futures[s] : futures[s][i].state # "RUNNING"

\* C19: the step that makes a session completed finds it running (no stop
\* request and no failure has marked it) with a future for every platform of
\* its list, each finished and handed over.
C19_CompletedOnlyFromRunning ==
    [][\A s \in Sessions :
          (Status(s) # "completed"
             /\ ExtractionSession'[s].status = "completed")
          => /\ Status(s) = "running"
             /\ thread[s] \in {"collect", "mark"}
             /\ thread[s] = "collect"
                => /\ Len(futures[s]) = Len(ExtractionSession[s].platforms)
                   /\ \A i \in DOMAIN futures[s] :
                         futures[s][i].state = "YIELDED"
      ]_vars

\* C20: a turn of run_scraper_with_retry that calls the collector and leaves
\* the invocation running (a failed attempt that is not the last) ends in
\* time.sleep, and a turn that ends the invocation does not sleep.
C20_BackoffAfterFailedAttempt ==
    [][(run.state = "RUNNING" /\ run'.calls = run.calls + 1)
       => IF run'.state = "RUNNING"
          THEN run'.sleeps = run.sleeps + 1
          ELSE run'.sleeps = run.sleeps
      ]_vars

\* the cache key of the invocation under observation
RunKey == get_cache_key(run.platform, run.keywords, run.location)

\* C21: with the backend reachable, a turn of run_scraper_with_retry whose
\* collector call returns a non-empty list leaves that list in the cache under
\* the invocation's key as it returns it; every other turn (empty list,
\* non-list, exception, cache hit) leaves the cache as it was.  So the key has
\* an entry after the turn iff the call gave a non-empty list or it had one.
C21_CachePutOnNonEmptySuccess ==
    [][(run.state = "RUNNING" /\ run' # run)
       => LET fresh == /\ run'.calls = run.calls + 1
                       /\ run'.state = "FINISHED"
                       /\ run'.result # <<>>
          IN /\ IF fresh /\ redis.up
                THEN /\ DOMAIN redis'.store = DOMAIN redis.store \cup {RunKey}
                     /\ redis'.store[RunKey] = json_dumps(run'.result)
                     /\ \A k \in DOMAIN redis.store \ {RunKey} :
                           redis'.store[k] = redis.store[k]
                ELSE redis' = redis
             /\ RunKey \in DOMAIN redis'.store
                   <=> (fresh /\ redis.up) \/ RunKey \in DOMAIN redis.store
      ]_vars

C21_Witness ==
    /\ run.state = "FINISHED"
    /\ run.calls = 2
    /\ run.result # <<>>
    /\ redis.up
    /\ RunKey \in DOMAIN redis.store
    /\ json_loads(redis.store[RunKey]) = run.result

\* C22: with the cache backend absent or failing, every turn of
\* run_scraper_with_retry finds a miss and calls the collector in that same
\* turn (no attempt is used up without a call), nothing is raised to the
\* caller, the backend is left as it was, and a list the collector returns
\* is returned as it is.
C22_BackendFailureIsMiss ==
    [][(run.state = "RUNNING" /\ ~redis.up /\ run' # run)
       => /\ get_cached_results(run.platform, run.keywords, run.location)
                = <<>>
          /\ run'.calls = run.calls + 1
          /\ run'.state = "RUNNING" => run'.attempt = run'.calls
          /\ ~run'.exception
          /\ redis' = redis
          /\ run'.result # <<>>
                => /\ run'.state = "FINISHED"
                   /\ run'.result \in CollectorLists(run.platform)
          /\ run'.state = "FINISHED"
                => \/ run'.succeeded
                   \/ run'.calls = max_retries /\ run'.result = <<>>
      ]_vars

C22_Witness ==
    /\ ~redis.up
    /\ redis.store = <<>>
    /\ run.state = "FINISHED"
    /\ run.calls = 2
    /\ run.result # <<>>

\* the futures of session s that wait in the executor's queue, in queue order
Queued(s) ==
    LET mine == SelectSeq(thread_pool, LAMBDA t : t[1] = s)
    IN [k \in DOMAIN mine |-> mine[k][2]]

\* C23: at most 5 futures execute at any instant, whatever the number of
\* platforms; the futures not yet started are exactly the ones in the
\* executor's queue, and they wait there in the order of the platform list
\* (each session's queued futures are the last of its list, in that order).
C23_AtMostFiveRunning ==
    /\ Cardinality(Running) <= 5
    /\ \A s \in Sessions :
          LET q == Queued(s)
              n == Len(futures[s])
          IN /\ \A k \in DOMAIN q : q[k] = n - Len(q) + k
             /\ \A i \in DOMAIN futures[s] :
                   futures[s][i].state = "PENDING" <=> i > n - Len(q)

C23_Witness ==
    /\ Len(ExtractionSession[1].platforms) > 5
    /\ Cardinality(Running) = 5
    /\ thread_pool # <<>>
    /\ futures[1][Head(thread_pool)[2]].state = "PENDING"

\* (NNN) NNN-NNNN or +1 (NNN) NNN-NNNN
IsCanonicalForm(number) ==
    LET national == IF Len(number) = 17 THEN SubSeq(number, 4, 17)
                    ELSE number
    IN /\ Len(number) \in {14, 17}
       /\ Len(number) = 17 => SubSeq(number, 1, 3) = <<"+", "1", " ">>
       /\ Len(national) = 14
       /\ national = Parenthesised(StripNonDigits(national))

\* C24: every string extract_phone_candidates returns has the form
\* (NNN) NNN-NNNN or +1 (NNN) NNN-NNNN and is the formatted number of one of
\* the matches, the match's extension (x and 1 to 5 digits) left out.
C24_CandidatesCanonical ==
    phone.state = "DONE"
    => \A k \in DOMAIN phone.candidates :
          /\ IsCanonicalForm(phone.candidates[k])
          /\ LET found == PHONE_REGEX_findall(phone.text, 1)
             IN \E j \in DOMAIN found :
                   phone.candidates[k]
                      = format_phone(StripNonDigits(found[j].number))

\* C25: when Thread.start() raises, the request's step leaves the session
\* failed with finished_at set and the guard clear; when thread_pool.submit
\* raises, the worker goes through its except clause, which leaves the
\* session failed with finished_at set, and from there only to its finally
\* clause, whose step leaves the session failed and the guard clear; with the
\* guard clear a valid start is accepted.
C25_FaultEndsFailed ==
    [][\A s \in Sessions :
          LET row == ExtractionSession'[s]
          IN /\ (thread[s] = "request" /\ thread'[s] = "exit")
                => /\ row.status = "failed" /\ row.finished_at # 0
                   /\ ~EXTRACTING'
                   /\ start_verdict(ValidRequest)' = "accepted"
             /\ (thread[s] = "submit" /\ thread'[s] # "submit"
                   /\ Len(futures'[s]) < Len(ExtractionSession[s].platforms))
                => thread'[s] = "except"
             /\ (thread[s] = "except" /\ thread'[s] # "except")
                => /\ thread'[s] = "finally"
                   /\ row.status = "failed" /\ row.finished_at # 0
             /\ (thread[s] = "finally" /\ thread'[s] # "finally")
                => /\ thread'[s] = "exit"
                   /\ row = ExtractionSession[s]
                   /\ ~EXTRACTING'
                   /\ start_verdict(ValidRequest)' = "accepted"
      ]_vars

C25_Witness ==
    /\ Len(ExtractionSession) = 1
    /\ thread[1] = "exit"
    /\ Status(1) = "failed"
    /\ ExtractionSession[1].finished_at = 1
    /\ futures[1] # <<>>
    /\ Len(futures[1]) < Len(ExtractionSession[1].platforms)
    /\ ~EXTRACTING
    /\ ~EXTRACTION_STOP_EVENT
    /\ start_verdict(ValidRequest) = "accepted"

\* C26: whenever EXTRACTING is unset no worker thread is alive and no future
\* is executing on a pool thread.
C26_GuardUnsetMeansIdle ==
    ~EXTRACTING
    => /\ \A s \in Sessions : thread[s] \in {"request", "exit"}
       /\ Running = {}

\* C27: a cache_results call for one (platform, keywords, location) leaves
\* what get_cached_results returns for every other triple as it was: no two
\* triples share a key, a ':' in keywords or location included.
C27_TriplesNeverShareKey ==
    [][(/\ handled'.op = "cache_results"
        /\ redis' = cache_results(handled'.req.platform,
                                  handled'.req.keywords,
                                  handled'.req.location, handled'.result))
       => \A t \in CacheTriples \ {handled'.req} :
             get_cached_results(t.platform, t.keywords, t.location)'
                = get_cached_results(t.platform, t.keywords, t.location)
      ]_vars

\* C28: EXTRACTION_DATA holds only records of the most recently accepted
\* session (the last row of ExtractionSession): while that session's worker
\* is between clearing the list (app.py:689) and storing its own results
\* (app.py:699), the list is empty.
C28_OnlyLatestSessionRecords ==
    LET latest == Len(ExtractionSession)
    IN (latest > 0 /\ thread[latest] \in {"submit", "collect"})
       => EXTRACTION_DATA = <<>>

\* C29: a session that is completed, failed or stopped has total_results
\* equal to the number of ExtractedData rows persisted for it.
C29_ResultCountIsPersistedCount ==
    \A s \in Sessions :
       Status(s) \in Terminal
       => ExtractionSession[s].total_results
             = Len(ExtractionSession[s].extracted_data)

\* C30: a call of a collector wrapped by @retry or @scraper_error_handler
\* calls the wrapped function at most 3 times and never raises to its caller;
\* every call before the one it returns on raised and was followed by a sleep
\* of delay * (attempt + 1) seconds; it returns what the first call that does
\* not raise returns, or the empty list when the third call raises too, and
\* does not sleep after the call it returns on.
C30_DecoratorRetryBound ==
    [][(run.state = "RUNNING" /\ run' # run)
       => /\ run'.calls = run.calls + 1
          /\ run'.calls <= retry_max_retries + 1
          /\ ~run'.exception
          /\ run.calls = run.attempt /\ Len(run.waits) = run.attempt
          /\ \A k \in DOMAIN run'.waits : run'.waits[k] = delay_seconds * k
          /\ \/ /\ run'.state = "FINISHED"
                /\ run'.result \in WrappedOutcomes(run.fn)
                /\ run'.result.kind \in {"list", "nonlist"}
                /\ run'.last_exc = run.last_exc
                /\ run'.waits = run.waits
             \/ /\ run'.state = "FINISHED"
                /\ run.attempt = retry_max_retries
                /\ run'.last_exc \in {"raise", "timeout"}
                /\ run'.result = EmptyList
                /\ run'.waits = run.waits
             \/ /\ run'.state = "RUNNING"
                /\ run.attempt < retry_max_retries
                /\ run'.attempt = run.attempt + 1
                /\ run'.last_exc \in {"raise", "timeout"}
                /\ run'.waits
                      = Append(run.waits, delay_seconds * (run.attempt + 1))
      ]_vars

C30_Witness ==
    /\ run.state = "FINISHED"
    /\ run.decorator = "retry"
    /\ run.calls = 3
    /\ run.waits = <<2, 4>>
    /\ run.last_exc = "raise"
    /\ run.result = EmptyList
    /\ ~run.exception
====
